---- MODULE Spec2Model ----
(***************************************************************************)
(* Model of VoiceRecognitionVAD (src/asr/asr_with_vad.py): the audio       *)
(* callback that feeds sample_queue, the listen loop that drains it, the   *)
(* pre-activation buffer, the accumulated samples, the pause counter and   *)
(* reset().                                                                *)
(*                                                                         *)
(* A frame's audio data is modelled by its arrival number (1, 2, 3, ...),  *)
(* so that order, loss and duplication of frames are visible.  The module  *)
(* constants BUFFER_SIZE and PAUSE_LIMIT are configuration: they are       *)
(* chosen once, in Init, from a bounded set of millisecond values, and     *)
(* never change afterwards.                                                *)
(*                                                                         *)
(* The second half models ActionSelectionQueue                             *)
(* (src/utils/ActionSelectionQueue.py): its processor thread, statement by *)
(* statement of run(), and the calls other threads make on it.  The two    *)
(* classes share nothing; each has its own specification.                  *)
(***************************************************************************)
EXTENDS Integers, Sequences, FiniteSets, TLC

\* ---------------------------------------------------------------- bounds
MaxFrames == 12         \* frames the audio callback delivers in one run
MaxQueue == 2           \* frames waiting in sample_queue at one time
MaxBufferFrames == 4    \* largest BUFFER_SIZE // VAD_SIZE configured
MaxPauseFrames == 4     \* largest PAUSE_LIMIT // VAD_SIZE configured
MaxActions == 3         \* actions waiting in ActionSelectionQueue.queue

\* ------------------------------------------------------- module constants
VAD_SIZE == 50          \* milliseconds of audio per frame

\* Millisecond settings that are not multiples of the frame size, so that
\* the floor of the division is what decides the frame count.
HalfFrame == VAD_SIZE \div 2
BufferSizes == { n * VAD_SIZE + HalfFrame : n \in 0..MaxBufferFrames }
PauseLimits == { n * VAD_SIZE + HalfFrame : n \in 0..MaxPauseFrames }

\* What the transcribe collaborator can do with an utterance: return a
\* text, return an empty text, or raise.
RAISES == "<exception>"
TranscribeOutcomes == { "hello", "", RAISES }

VARIABLES
  BUFFER_SIZE,        \* configuration: milliseconds of lookback
  PAUSE_LIMIT,        \* configuration: milliseconds of pause allowed
  sample_queue,       \* self.sample_queue: <<[data, vad_confidence]>>
  buffer,             \* self.buffer (queue.Queue with maxsize)
  samples,            \* self.samples
  recording_started,  \* self.recording_started
  gap_counter,        \* self.gap_counter
  input_stream,       \* "stopped" or "started"
  pc,                 \* the consumer: "idle", "start", "start_listening"
  result,             \* what the last _handle_audio_sample call returned
  utterance,          \* audio handed to transcribe by the last call, or <<>>
  raised,             \* the last call ended by an exception of transcribe
  produced,           \* frames delivered by the audio callback so far
  handled,            \* frames taken from sample_queue so far
  epoch,              \* value of handled when the engine last became fresh
  activatedAt,        \* arrival number of the frame that started the
                      \* recording in progress, 0 when there is none
  call,               \* the last call into the engine: its arguments and
                      \* the recording flag and gap counter it found
  op                  \* the operation that made the last step

vars == << BUFFER_SIZE, PAUSE_LIMIT, sample_queue, buffer, samples,
           recording_started, gap_counter, input_stream, pc, result,
           utterance, raised, produced, handled, epoch, activatedAt, call,
           op >>

\* The fields of ActionSelectionQueue and the threads that use it.
VARIABLES
  queue,              \* self.queue: the actions waiting
  stop_event,         \* self.stop_event is set
  pause_event,        \* self.pause_event is set
  thread,             \* self.thread: "unstarted", "running", "finished"
                      \* (run returned) or "crashed" (run raised)
  run_pc,             \* the statement of run() the thread is at
  current,            \* << the action fetched and being processed >>
  inference,          \* << the action whose result was last given to
                      \*    InferenceQueue().add_prompt >>
  stopper,            \* the caller of stop(): "ready", "joining", "stopped"
  fetched_after_stop  \* actions fetched since stop_event was set

asqVars == << queue, stop_event, pause_event, thread, run_pc, current,
              inference, stopper, fetched_after_stop >>

allVars == << vars, asqVars >>

\* The engine's own fields, as one record.
Self == [ buffer |-> buffer, samples |-> samples,
          recording_started |-> recording_started,
          gap_counter |-> gap_counter ]

\* ------------------------------------------------------------ the engine

\* queue.Queue(maxsize=BUFFER_SIZE // VAD_SIZE)
BufferMaxsize == BUFFER_SIZE \div VAD_SIZE

\* PAUSE_LIMIT // VAD_SIZE
PauseFrames == PAUSE_LIMIT \div VAD_SIZE

\* Mutant: the buffer counts as full one frame late.
BufferFull_OneLate(q) == 0 < BufferMaxsize /\ BufferMaxsize < Len(q)

\* queue.Queue.full(): a maxsize <= 0 means the queue is never full.
BufferFull(q) == 0 < BufferMaxsize /\ BufferMaxsize <= Len(q)

\* The return values of _handle_audio_sample.
None == "None"
Dict(name, content) == "dict"

\* One call's outcome: the engine's fields afterwards and what the call did.
Outcome(e, res, utt, exc, stopped) ==
  [ self |-> e, result |-> res, utterance |-> utt, raised |-> exc,
    stopped |-> stopped ]

\* IdentifySpeaker().identify_speaker
identify_speaker(audio_clip) == "GoldRoger"

\* process_detected_audio: stops the stream, transcribes self.samples and
\* returns a dict only for a non-empty text.  It resets nothing.
process_detected_audio(e, text) ==
  LET detected_speaker == identify_speaker(e.samples)
  IN  IF text = RAISES
        THEN Outcome(e, None, e.samples, TRUE, TRUE)
        ELSE Outcome(e,
                     IF text # "" THEN Dict(detected_speaker, text) ELSE None,
                     e.samples, FALSE, TRUE)

\* Mutant: a full buffer gives up its newest frame instead of its oldest.
_manage_pre_activation_buffer_EvictsNewest(e, sample, vad_confidence) ==
  LET kept == IF BufferFull(e.buffer)
                THEN SubSeq(e.buffer, 1, Len(e.buffer) - 1) ELSE e.buffer
      put  == Append(kept, sample)
  IN  IF vad_confidence
        THEN Outcome([e EXCEPT !.buffer = put, !.samples = put,
                               !.recording_started = TRUE],
                     None, <<>>, FALSE, FALSE)
        ELSE Outcome([e EXCEPT !.buffer = put], None, <<>>, FALSE, FALSE)

\* Mutant: the activating frame is appended to the snapshot, which holds it
\* already.
_manage_pre_activation_buffer_AppendsTrigger(e, sample, vad_confidence) ==
  LET kept == IF BufferFull(e.buffer) THEN Tail(e.buffer) ELSE e.buffer
      put  == Append(kept, sample)
  IN  IF vad_confidence
        THEN Outcome([e EXCEPT !.buffer = put, !.samples = Append(put, sample),
                               !.recording_started = TRUE],
                     None, <<>>, FALSE, FALSE)
        ELSE Outcome([e EXCEPT !.buffer = put], None, <<>>, FALSE, FALSE)

\* _manage_pre_activation_buffer
_manage_pre_activation_buffer(e, sample, vad_confidence) ==
  LET kept == IF BufferFull(e.buffer) THEN Tail(e.buffer) ELSE e.buffer
      put  == Append(kept, sample)
  IN  IF vad_confidence
        THEN Outcome([e EXCEPT !.buffer = put, !.samples = put,
                               !.recording_started = TRUE],
                     None, <<>>, FALSE, FALSE)
        ELSE Outcome([e EXCEPT !.buffer = put], None, <<>>, FALSE, FALSE)

\* Mutant: an active frame leaves the gap counter as it is.
_process_activated_audio_KeepsGap(e, sample, vad_confidence, text) ==
  LET appended == [e EXCEPT !.samples = Append(e.samples, sample)]
  IN  IF ~vad_confidence
        THEN LET counted == [appended EXCEPT !.gap_counter = @ + 1]
             IN  IF counted.gap_counter >= PauseFrames
                   THEN process_detected_audio(counted, text)
                   ELSE Outcome(counted, None, <<>>, FALSE, FALSE)
        ELSE Outcome(appended, None, <<>>, FALSE, FALSE)

\* Mutant: the pause is taken as over one frame early.
_process_activated_audio_EarlyPause(e, sample, vad_confidence, text) ==
  LET appended == [e EXCEPT !.samples = Append(e.samples, sample)]
  IN  IF ~vad_confidence
        THEN LET counted == [appended EXCEPT !.gap_counter = @ + 1]
             IN  IF counted.gap_counter >= PauseFrames - 1
                   THEN process_detected_audio(counted, text)
                   ELSE Outcome(counted, None, <<>>, FALSE, FALSE)
        ELSE Outcome([appended EXCEPT !.gap_counter = 0],
                     None, <<>>, FALSE, FALSE)

\* Mutant: the pause check is made after both branches, for active frames
\* too.
_process_activated_audio_ChecksAlways(e, sample, vad_confidence, text) ==
  LET appended == [e EXCEPT !.samples = Append(e.samples, sample)]
      counted  == IF ~vad_confidence
                    THEN [appended EXCEPT !.gap_counter = @ + 1]
                    ELSE [appended EXCEPT !.gap_counter = 0]
  IN  IF counted.gap_counter >= PauseFrames
        THEN process_detected_audio(counted, text)
        ELSE Outcome(counted, None, <<>>, FALSE, FALSE)

\* Mutant: the frame goes through the pre-activation buffer while
\* Recording too.
_process_activated_audio_FeedsBuffer(e, sample, vad_confidence, text) ==
  LET kept == IF BufferFull(e.buffer) THEN Tail(e.buffer) ELSE e.buffer
      appended == [e EXCEPT !.samples = Append(e.samples, sample),
                            !.buffer = Append(kept, sample)]
  IN  IF ~vad_confidence
        THEN LET counted == [appended EXCEPT !.gap_counter = @ + 1]
             IN  IF counted.gap_counter >= PauseFrames
                   THEN process_detected_audio(counted, text)
                   ELSE Outcome(counted, None, <<>>, FALSE, FALSE)
        ELSE Outcome([appended EXCEPT !.gap_counter = 0],
                     None, <<>>, FALSE, FALSE)

\* _process_activated_audio
_process_activated_audio(e, sample, vad_confidence, text) ==
  LET appended == [e EXCEPT !.samples = Append(e.samples, sample)]
  IN  IF ~vad_confidence
        THEN LET counted == [appended EXCEPT !.gap_counter = @ + 1]
             IN  IF counted.gap_counter >= PauseFrames
                   THEN process_detected_audio(counted, text)
                   ELSE Outcome(counted, None, <<>>, FALSE, FALSE)
        ELSE Outcome([appended EXCEPT !.gap_counter = 0],
                     None, <<>>, FALSE, FALSE)

\* Mutant: the two branches are not exclusive, the activating frame is
\* processed as a recorded frame as well.
_handle_audio_sample_FallsThrough(e, sample, vad_confidence, text) ==
  IF ~e.recording_started
    THEN LET managed == _manage_pre_activation_buffer(e, sample, vad_confidence)
         IN  IF managed.self.recording_started
               THEN _process_activated_audio(managed.self, sample,
                                             vad_confidence, text)
               ELSE managed
    ELSE _process_activated_audio(e, sample, vad_confidence, text)

\* _handle_audio_sample
_handle_audio_sample(e, sample, vad_confidence, text) ==
  IF ~e.recording_started
    THEN _manage_pre_activation_buffer(e, sample, vad_confidence)
    ELSE _process_activated_audio(e, sample, vad_confidence, text)

\* Mutant: reset() forgets the pre-activation buffer.
reset_KeepsBuffer(e) ==
  [ e EXCEPT !.recording_started = FALSE, !.samples = <<>>,
             !.gap_counter = 0 ]

\* Mutant: reset() empties the buffer down to its newest frame.
reset_KeepsNewest(e) ==
  [ e EXCEPT !.recording_started = FALSE, !.samples = <<>>,
             !.gap_counter = 0,
             !.buffer = IF e.buffer = <<>> THEN <<>>
                        ELSE << e.buffer[Len(e.buffer)] >> ]

\* Mutant: reset() leaves the gap counter as it is.
reset_KeepsGap(e) ==
  [ e EXCEPT !.recording_started = FALSE, !.samples = <<>>,
             !.buffer = <<>> ]

\* reset()
reset(e) ==
  [ e EXCEPT !.recording_started = FALSE, !.samples = <<>>,
             !.gap_counter = 0, !.buffer = <<>> ]

\* --------------------------------------------------------------- actions

\* ActionSelectionQueue.__init__
ActionSelectionQueue_init ==
  /\ queue = <<>>
  /\ stop_event = FALSE
  /\ pause_event = FALSE
  /\ thread = "unstarted"
  /\ run_pc = "while"
  /\ current = <<>>
  /\ inference = <<>>
  /\ stopper = "ready"
  /\ fetched_after_stop = 0

\* VoiceRecognitionVAD.__init__, and an ActionSelectionQueue beside it.
Init ==
  /\ BUFFER_SIZE \in BufferSizes
  /\ PAUSE_LIMIT \in PauseLimits
  /\ sample_queue = <<>>
  /\ buffer = <<>>
  /\ samples = <<>>
  /\ recording_started = FALSE
  /\ gap_counter = 0
  /\ input_stream = "stopped"
  /\ pc = "idle"
  /\ result = None
  /\ utterance = <<>>
  /\ raised = FALSE
  /\ produced = 0
  /\ handled = 0
  /\ epoch = 0
  /\ activatedAt = 0
  /\ call = [ sample |-> 0, vad_confidence |-> FALSE, recording |-> FALSE,
              gap |-> 0 ]
  /\ op = "init"
  /\ ActionSelectionQueue_init

\* Mutant: the callback puts the frame at the head of the queue.
audio_callback_PutsFirst(vad_confidence) ==
  /\ input_stream = "started"
  /\ produced < MaxFrames
  /\ Len(sample_queue) < MaxQueue
  /\ produced' = produced + 1
  /\ sample_queue' = << [data |-> produced + 1,
                         vad_confidence |-> vad_confidence] >> \o sample_queue
  /\ op' = "audio_callback"
  /\ UNCHANGED << BUFFER_SIZE, PAUSE_LIMIT, buffer, samples,
                  recording_started, gap_counter, input_stream, pc, result,
                  utterance, raised, handled, epoch, activatedAt, call >>
  /\ UNCHANGED asqVars

\* audio_callback: the stream hands over one frame; its activity flag is
\* computed and the pair is put on sample_queue.
audio_callback(vad_confidence) ==
  /\ input_stream = "started"
  /\ produced < MaxFrames
  /\ Len(sample_queue) < MaxQueue
  /\ produced' = produced + 1
  /\ sample_queue' = Append(sample_queue,
                            [data |-> produced + 1,
                             vad_confidence |-> vad_confidence])
  /\ op' = "audio_callback"
  /\ UNCHANGED << BUFFER_SIZE, PAUSE_LIMIT, buffer, samples,
                  recording_started, gap_counter, input_stream, pc, result,
                  utterance, raised, handled, epoch, activatedAt, call >>
  /\ UNCHANGED asqVars

\* start(): starts the stream and enters the listen loop.
start ==
  /\ pc = "idle"
  /\ pc' = "start"
  /\ input_stream' = "started"
  /\ op' = "start"
  /\ UNCHANGED << BUFFER_SIZE, PAUSE_LIMIT, sample_queue, buffer, samples,
                  recording_started, gap_counter, result, utterance, raised,
                  produced, handled, epoch, activatedAt, call >>
  /\ UNCHANGED asqVars

\* start_listening(): the same, with reset() once the loop has returned.
start_listening ==
  /\ pc = "idle"
  /\ pc' = "start_listening"
  /\ input_stream' = "started"
  /\ op' = "start_listening"
  /\ UNCHANGED << BUFFER_SIZE, PAUSE_LIMIT, sample_queue, buffer, samples,
                  recording_started, gap_counter, result, utterance, raised,
                  produced, handled, epoch, activatedAt, call >>
  /\ UNCHANGED asqVars

\* One turn of the loop of _listen_and_respond: take a frame, handle it,
\* and return when the result is truthy.  start_listening then calls
\* reset(); an exception of transcribe leaves the loop and skips it.
_listen_and_respond(text) ==
  /\ pc \in {"start", "start_listening"}
  /\ sample_queue # <<>>
  /\ LET item == Head(sample_queue)
         out  == _handle_audio_sample(Self, item.data, item.vad_confidence,
                                      text)
         returns == out.result # None
         resets  == returns /\ pc = "start_listening"
         after   == IF resets THEN reset(out.self) ELSE out.self
     IN  \* transcribe is only consulted by a call that finalizes
         /\ (out.utterance = <<>>) => (text = "hello")
         /\ sample_queue' = Tail(sample_queue)
         /\ handled' = handled + 1
         /\ buffer' = after.buffer
         /\ samples' = after.samples
         /\ recording_started' = after.recording_started
         /\ gap_counter' = after.gap_counter
         /\ input_stream' = IF out.stopped THEN "stopped" ELSE input_stream
         /\ result' = out.result
         /\ utterance' = out.utterance
         /\ raised' = out.raised
         /\ pc' = IF returns \/ out.raised THEN "idle" ELSE pc
         /\ epoch' = IF resets THEN handled + 1 ELSE epoch
         /\ activatedAt' = IF resets THEN 0
                           ELSE IF ~recording_started /\ out.self.recording_started
                             THEN item.data ELSE activatedAt
         /\ call' = [ sample |-> item.data,
                      vad_confidence |-> item.vad_confidence,
                      recording |-> recording_started, gap |-> gap_counter ]
  /\ op' = "handle"
  /\ UNCHANGED << BUFFER_SIZE, PAUSE_LIMIT, produced >>
  /\ UNCHANGED asqVars

\* reset() called by the owner of the engine.
Reset ==
  /\ LET after == reset(Self)
     IN  /\ buffer' = after.buffer
         /\ samples' = after.samples
         /\ recording_started' = after.recording_started
         /\ gap_counter' = after.gap_counter
  /\ result' = None
  /\ utterance' = <<>>
  /\ raised' = FALSE
  /\ epoch' = handled
  /\ call' = [ sample |-> 0, vad_confidence |-> FALSE,
               recording |-> recording_started, gap |-> gap_counter ]
  /\ activatedAt' = 0
  /\ op' = "reset"
  /\ UNCHANGED << BUFFER_SIZE, PAUSE_LIMIT, sample_queue, input_stream, pc,
                  produced, handled >>
  /\ UNCHANGED asqVars

Next ==
  \/ \E vad_confidence \in BOOLEAN : audio_callback(vad_confidence)
  \/ start
  \/ start_listening
  \/ \E text \in TranscribeOutcomes : _listen_and_respond(text)
  \/ Reset

\* ------------------------------------------------- ActionSelectionQueue

\* The actions: what run() reads of one is its requires_input flag.
Actions == { [requires_input |-> FALSE], [requires_input |-> TRUE] }

\* start(): self.thread.start()
asq_start ==
  /\ thread = "unstarted"
  /\ thread' = "running"
  /\ UNCHANGED << queue, stop_event, pause_event, run_pc, current, inference,
                  stopper, fetched_after_stop >>
  /\ UNCHANGED vars

\* add_action(action), from any thread
add_action(action) ==
  /\ Len(queue) < MaxActions
  /\ queue' = Append(queue, action)
  /\ UNCHANGED << stop_event, pause_event, thread, run_pc, current,
                  inference, stopper, fetched_after_stop >>
  /\ UNCHANGED vars

\* pause_action()
pause_action ==
  /\ pause_event' = TRUE
  /\ UNCHANGED << queue, stop_event, thread, run_pc, current, inference,
                  stopper, fetched_after_stop >>
  /\ UNCHANGED vars

\* resume_action()
resume_action ==
  /\ pause_event' = FALSE
  /\ UNCHANGED << queue, stop_event, thread, run_pc, current, inference,
                  stopper, fetched_after_stop >>
  /\ UNCHANGED vars

\* stop(): sets the stop event and goes to wait in self.thread.join().
stop ==
  /\ stopper = "ready"
  /\ thread # "unstarted"
  /\ stop_event' = TRUE
  /\ stopper' = "joining"
  /\ UNCHANGED << queue, pause_event, thread, run_pc, current, inference,
                  fetched_after_stop >>
  /\ UNCHANGED vars

\* stop(): the join returns once the thread has ended, and stop() returns.
stop_returns ==
  /\ stopper = "joining"
  /\ thread \in {"finished", "crashed"}
  /\ stopper' = "stopped"
  /\ UNCHANGED << queue, stop_event, pause_event, thread, run_pc, current,
                  inference, fetched_after_stop >>
  /\ UNCHANGED vars

\* run(): while not self.stop_event.is_set()
run_while ==
  /\ thread = "running" /\ run_pc = "while"
  /\ IF stop_event
       THEN thread' = "finished" /\ run_pc' = run_pc
       ELSE thread' = thread /\ run_pc' = "if_pause"
  /\ UNCHANGED << queue, stop_event, pause_event, current, inference,
                  stopper, fetched_after_stop >>
  /\ UNCHANGED vars

\* Mutant: a paused thread waits at the pause check until it is resumed.
run_if_pause_Waits ==
  /\ thread = "running" /\ run_pc = "if_pause"
  /\ thread' = thread
  /\ run_pc' = IF pause_event THEN run_pc ELSE "if_empty"
  /\ UNCHANGED << queue, stop_event, pause_event, current, inference,
                  stopper, fetched_after_stop >>
  /\ UNCHANGED vars

\* run(): if self.pause_event.is_set(): self.thread.join(); continue.
\* The thread joins itself: Thread.join raises RuntimeError ("cannot join
\* current thread"), nothing catches it, and run() ends there.
run_if_pause ==
  /\ thread = "running" /\ run_pc = "if_pause"
  /\ IF pause_event
       THEN thread' = "crashed" /\ run_pc' = run_pc
       ELSE thread' = thread /\ run_pc' = "if_empty"
  /\ UNCHANGED << queue, stop_event, pause_event, current, inference,
                  stopper, fetched_after_stop >>
  /\ UNCHANGED vars

\* run(): if self.queue.empty(): the default behaviour selects an action
\* and it is added to the queue; else the next action is fetched.
run_if_empty ==
  /\ thread = "running" /\ run_pc = "if_empty"
  /\ IF queue = <<>>
       THEN /\ \E selected_action \in Actions :
                 queue' = Append(queue, selected_action)
            /\ run_pc' = "while"
            /\ UNCHANGED << current, fetched_after_stop >>
       ELSE /\ current' = << Head(queue) >>
            /\ queue' = Tail(queue)
            /\ run_pc' = "process"
            /\ fetched_after_stop' =
                 IF stop_event THEN fetched_after_stop + 1
                               ELSE fetched_after_stop
  /\ UNCHANGED << stop_event, pause_event, thread, inference, stopper >>
  /\ UNCHANGED vars

\* run(): the fetched action is started; an action that requires input can
\* fail to get it, which is logged and skips the action; otherwise the
\* result goes to InferenceQueue().add_prompt.
run_process(input_fails) ==
  /\ thread = "running" /\ run_pc = "process"
  /\ input_fails => current[1].requires_input
  /\ inference' = IF input_fails THEN inference ELSE current
  /\ current' = <<>>
  /\ run_pc' = "while"
  /\ UNCHANGED << queue, stop_event, pause_event, thread, stopper,
                  fetched_after_stop >>
  /\ UNCHANGED vars

\* The steps of the processor thread.
run ==
  \/ run_while
  \/ run_if_pause
  \/ run_if_empty
  \/ \E input_fails \in BOOLEAN : run_process(input_fails)

NextASQ ==
  \/ asq_start
  \/ \E action \in Actions : add_action(action)
  \/ pause_action
  \/ resume_action
  \/ stop
  \/ stop_returns
  \/ run_while
  \/ run_if_pause
  \/ run_if_empty
  \/ \E input_fails \in BOOLEAN : run_process(input_fails)

\* -------------------------------------------------------- specifications

\* VoiceRecognitionVAD; the ActionSelectionQueue is never started.
Spec == Init /\ [][Next]_allVars

\* ActionSelectionQueue; the VoiceRecognitionVAD is never started.
InitASQ ==
  /\ Init
  /\ BUFFER_SIZE = HalfFrame
  /\ PAUSE_LIMIT = HalfFrame

SpecASQ == InitASQ /\ [][NextASQ]_allVars

\* The processor thread keeps running while it has a statement to execute
\* (the calls it makes on its collaborators return), and a join whose
\* thread has ended returns.
FairSpecASQ ==
  /\ SpecASQ
  /\ WF_allVars(run)
  /\ WF_allVars(stop_returns)

\* ---------------------------------------------------------------- claims

Min(a, b) == IF a <= b THEN a ELSE b

\* A step that handled one frame, and a step that finalized: handed the
\* accumulated audio to transcribe.
Handles == op' = "handle"
Finalizes == Handles /\ utterance' # <<>>

\* Inactive frames handled by the fresh engine before the activating frame,
\* and frames from the activating one to the one being handled, inclusive.
IdleFrames == activatedAt - epoch - 1
RunFrames == handled' - activatedAt + 1

\* C1 as stated: for k inactive frames and then an active one given to an
\* Idle engine with buffer capacity C >= 1, the utterance begins with f1
\* when k <= C and with f(k-C+1) when k > C.
C1_Original ==
  [][ (Finalizes /\ BufferMaxsize >= 1) =>
        Head(utterance') = IF IdleFrames <= BufferMaxsize
                             THEN epoch + 1
                             ELSE epoch + (IdleFrames - BufferMaxsize + 1) ]_vars

\* C1 amended: the activating frame takes one of the C places of the buffer,
\* so the accumulator, and every utterance made from it, begins with f1 when
\* k < C and with f(k-C+2) when k >= C; the queue of capacity 0 is unbounded
\* and keeps f1.
C1_FirstFrame ==
  [][ /\ (Handles /\ recording_started') =>
           Head(samples') = IF BufferMaxsize = 0 \/ activatedAt' - epoch' - 1 < BufferMaxsize
                              THEN epoch' + 1
                              ELSE activatedAt' - BufferMaxsize + 1
      /\ Finalizes =>
           Head(utterance') = IF BufferMaxsize = 0 \/ IdleFrames < BufferMaxsize
                                THEN epoch + 1
                                ELSE activatedAt - BufferMaxsize + 1 ]_vars

\* An utterance was made after more inactive frames than the buffer holds,
\* following a reset: its first frame is C-1 frames before the activating one.
C1_Witness ==
  /\ op = "handle" /\ utterance # <<>> /\ recording_started
  /\ BufferMaxsize >= 2 /\ epoch >= 1
  /\ activatedAt - epoch - 1 > BufferMaxsize
  /\ Head(utterance) = activatedAt - BufferMaxsize + 1

\* C2 as stated: with a pause limit of L >= 1 frames, finalize happens on
\* exactly the frame that brings the count of consecutive inactive frames
\* to L, never below it and never on a later frame of the same utterance.
C2_Original ==
  [][ (Finalizes /\ PauseFrames >= 1) =>
        /\ ~Head(sample_queue).vad_confidence
        /\ gap_counter + 1 = PauseFrames ]_vars

\* C3 as stated: when a call finalizes and transcribe returns, the engine
\* is Idle again once the frame is handled: not recording, accumulator and
\* buffer empty, gap counter 0.
C3_Original ==
  (op = "handle" /\ utterance # <<>> /\ ~raised) =>
    /\ ~recording_started
    /\ samples = <<>>
    /\ gap_counter = 0
    /\ buffer = <<>>

\* C4 as stated: the pre-activation buffer never holds more than
\* C = BUFFER_SIZE // VAD_SIZE frames, for every C >= 0.
C4_Original == Len(buffer) <= BufferMaxsize

\* C5: after N >= C inactive frames given to an Idle engine (C >= 1), the
\* buffer holds exactly the last C frames, oldest first.
C5_LastFrames ==
  (~recording_started /\ BufferMaxsize >= 1 /\ handled - epoch >= BufferMaxsize) =>
    buffer = [ i \in 1..BufferMaxsize |-> handled - BufferMaxsize + i ]

\* The Idle engine has seen more frames than the buffer holds since a reset.
C5_Witness ==
  /\ ~recording_started /\ op = "handle"
  /\ BufferMaxsize >= 2 /\ epoch >= 1
  /\ handled - epoch >= BufferMaxsize + 2
  /\ Len(buffer) = BufferMaxsize

\* C6: an active frame while Recording sets the gap counter to 0, does not
\* finalize and keeps every accumulated frame; and an utterance made later
\* in the recording is the whole accumulator plus the finalizing frame.
C6_GapReset ==
  [][ /\ (Handles /\ recording_started /\ Head(sample_queue).vad_confidence) =>
           /\ gap_counter' = 0
           /\ utterance' = <<>>
           /\ result' = None
           /\ recording_started'
           /\ samples' = Append(samples, Head(sample_queue).data)
      /\ (Finalizes /\ recording_started) =>
           utterance' = Append(samples, Head(sample_queue).data) ]_vars

\* An active frame arrived one frame before the pause limit (gap L-1 >= 1)
\* and the recording goes on with every frame since the first one kept.
C6_Witness ==
  /\ op = "handle" /\ call.recording /\ call.vad_confidence
  /\ call.gap >= 1 /\ call.gap = PauseFrames - 1
  /\ recording_started /\ gap_counter = 0 /\ utterance = <<>>
  /\ Len(samples) >= 3 /\ samples[Len(samples)] = call.sample

\* C7: a call returns a result only when it finalizes, which takes a
\* Recording engine, an inactive frame and a gap count at or past the limit;
\* a call made while Idle (the activating one too) returns nothing.
C7_ResultOnlyOnFinalize ==
  (op = "handle" /\ result # None) =>
    /\ call.recording
    /\ ~call.vad_confidence
    /\ call.gap + 1 >= PauseFrames
    /\ utterance # <<>>
    /\ ~raised

\* A call made while Recording returned a dict on the frame that reached
\* the limit.
C7_Witness ==
  /\ op = "handle" /\ result # None /\ call.recording
  /\ PauseFrames >= 2 /\ call.gap + 1 = PauseFrames
  /\ utterance # <<>>

\* C8: reset() leaves the engine Idle with empty accumulator and buffer and
\* gap counter 0 and emits nothing, from any state; a second reset() changes
\* nothing.
C8_Reset ==
  [][ (op' = "reset") =>
        /\ ~recording_started' /\ samples' = <<>>
        /\ gap_counter' = 0 /\ buffer' = <<>>
        /\ utterance' = <<>> /\ result' = None
        /\ (op = "reset" =>
              UNCHANGED << buffer, samples, recording_started, gap_counter,
                           sample_queue, input_stream, pc >>) ]_vars

\* reset() was called in the middle of a recording, inside the pause window.
C8_Witness ==
  /\ op = "reset" /\ call.recording /\ ~call.vad_confidence
  /\ call.gap + 1 < PauseFrames
  /\ pc # "idle"
  /\ ~recording_started /\ buffer = <<>> /\ samples = <<>>

\* C9 as stated: the utterance for k inactive frames and a run of m frames
\* from the activating to the finalizing one holds min(k, C) + m frames.
C9_Original ==
  [][ (Finalizes /\ BufferMaxsize >= 1) =>
        Len(utterance') = Min(IdleFrames, BufferMaxsize) + RunFrames ]_vars

\* C9 amended: it holds min(k, C-1) + m frames (k + m with the unbounded
\* queue of capacity 0), and is made no earlier than the L-th consecutive
\* inactive frame; with C = 4 and L = 4, 5 inactive frames and a run of 7
\* give 10 frames.
C9_UtteranceLength ==
  [][ Finalizes =>
        /\ Len(utterance') =
             (IF BufferMaxsize = 0 THEN IdleFrames
                                   ELSE Min(IdleFrames, BufferMaxsize - 1))
             + RunFrames
        /\ gap_counter + 1 >= PauseFrames
        /\ (BufferMaxsize = 4 /\ IdleFrames = 5 /\ RunFrames = 7) =>
             Len(utterance') = 10 ]_vars

\* C = 4, L = 4: five inactive frames, activation on the 6th, and the
\* utterance made on the 12th frame, the 4th consecutive inactive one.
C9_Witness ==
  /\ BufferMaxsize = 4 /\ PauseFrames = 4
  /\ epoch = 0 /\ activatedAt = 6 /\ handled = 12
  /\ op = "handle" /\ call.gap = 3 /\ ~call.vad_confidence
  /\ utterance = << 3, 4, 5, 6, 7, 8, 9, 10, 11, 12 >>

\* C10 as stated: with buffer capacity 0 the pre-activation buffer stays
\* empty whatever is inserted, and the accumulator seeded from it at
\* activation is empty.
C10_Original ==
  (BufferMaxsize = 0) =>
    /\ buffer = <<>>
    /\ (op = "handle" /\ ~call.recording /\ call.vad_confidence) => samples = <<>>

\* C11: with a pause limit of 0 frames (PAUSE_LIMIT < VAD_SIZE) the first
\* inactive frame handled while Recording finalizes, and an active frame
\* handled while Recording does not.
C11_ZeroPauseLimit ==
  (op = "handle" /\ call.recording /\ PAUSE_LIMIT < VAD_SIZE) =>
    IF call.vad_confidence
      THEN utterance = <<>> /\ result = None
      ELSE utterance # <<>> /\ utterance[Len(utterance)] = call.sample

\* With a pause limit of 0, the frame after the activating one was inactive
\* and the two frames were handed to transcribe.
C11_Witness ==
  /\ PAUSE_LIMIT < VAD_SIZE /\ op = "handle"
  /\ call.recording /\ ~call.vad_confidence /\ call.gap = 0
  /\ call.sample = activatedAt + 1
  /\ Len(utterance) >= 2

\* C12 as stated: when transcribe raises on a finalized utterance, the
\* engine has been reset before: it is Idle, with accumulator, gap counter
\* and buffer cleared.
C12_Original ==
  (op = "handle" /\ raised) =>
    /\ ~recording_started
    /\ samples = <<>>
    /\ gap_counter = 0
    /\ buffer = <<>>

\* C13 as stated: once a pause has been detected, start_listening returns;
\* it is not left in its loop with the stream stopped and nothing to take
\* from sample_queue.
C13_Original ==
  (pc = "start_listening" /\ input_stream = "stopped") => sample_queue # <<>>

\* C14: whatever the interleaving of the callback and the listen loop, the
\* frames waiting in sample_queue are the produced ones not yet handled, in
\* production order, the n-th frame handled is the n-th produced, and the
\* callback leaves the engine alone.
C14_FifoHandoff ==
  [][ /\ sample_queue' = [ i \in 1..(produced' - handled') |->
                             [ data |-> handled' + i,
                               vad_confidence |-> sample_queue'[i].vad_confidence ] ]
      /\ Handles => (call'.sample = handled + 1 /\ handled' = handled + 1)
      /\ (op' = "audio_callback") =>
           UNCHANGED << buffer, samples, recording_started, gap_counter,
                        handled >> ]_vars

\* The loop took the first of two frames the callback had queued.
C14_Witness ==
  /\ op = "handle" /\ handled >= 2 /\ call.sample = handled
  /\ Len(sample_queue) = 1 /\ produced = handled + 1
  /\ pc # "idle"

\* C15: while Recording the accumulator begins with the buffer as it was at
\* activation, whose last frame is the activating one, and goes on with
\* every later frame once, in arrival order; an activating frame that found
\* the buffer empty is the accumulator's first frame.
C15_Accumulator ==
  recording_started =>
    /\ buffer # <<>>
    /\ buffer[Len(buffer)] = activatedAt
    /\ Len(samples) >= Len(buffer)
    /\ SubSeq(samples, 1, Len(buffer)) = buffer
    /\ \A i \in 1..Len(samples) : samples[i] = samples[1] + (i - 1)
    /\ samples[Len(samples)] = handled
    /\ (activatedAt = epoch + 1) => samples[1] = activatedAt

\* Two frames of lookback, the activating frame and two later frames.
C15_Witness ==
  /\ recording_started /\ op = "handle"
  /\ Len(buffer) = 3 /\ Len(samples) = 5
  /\ samples[3] = activatedAt /\ epoch >= 1

\* C16: reset() emits nothing, and no frame handled before a reset is in
\* the buffer, in the accumulator or in an utterance made after it.
C16_ResetCancels ==
  [][ /\ (op' = "reset") => (utterance' = <<>> /\ result' = None /\ ~raised')
      /\ \A i \in 1..Len(buffer') : buffer'[i] > epoch'
      /\ \A i \in 1..Len(samples') : samples'[i] > epoch'
      /\ Finalizes => \A i \in 1..Len(utterance') : utterance'[i] > epoch ]_vars

\* reset() was called in the middle of a recording, with frames still
\* waiting to be handled.
C16_Witness ==
  /\ op = "reset" /\ call.recording /\ call.gap >= 1
  /\ handled >= 3 /\ sample_queue # <<>> /\ pc # "idle"
  /\ samples = <<>> /\ utterance = <<>>

\* What _handle_audio_sample would make of the frame at the head of
\* sample_queue, for each thing transcribe can do.
NextOutcomes ==
  IF sample_queue = <<>> THEN {}
  ELSE { _handle_audio_sample(Self, Head(sample_queue).data,
                              Head(sample_queue).vad_confidence, text) :
           text \in TranscribeOutcomes }

\* C17: handling a frame while Recording leaves the buffer as it is;
\* handling one while Idle leaves the gap counter as it is, and the
\* accumulator and the recording flag too when the frame is inactive.
C17_FrameEffect ==
  \A out \in NextOutcomes :
    /\ recording_started => out.self.buffer = buffer
    /\ ~recording_started => out.self.gap_counter = gap_counter
    /\ (~recording_started /\ ~Head(sample_queue).vad_confidence) =>
         /\ out.self.samples = samples
         /\ out.self.recording_started = recording_started

\* A frame is about to be handled by a Recording engine whose buffer holds
\* lookback, after frames were already handled while Recording.
C17_Witness ==
  /\ recording_started /\ sample_queue # <<>> /\ pc # "idle"
  /\ op = "handle" /\ call.recording
  /\ Len(buffer) >= 2 /\ Len(samples) > Len(buffer)

\* C18: the gap counter is 0 in every Idle state, and so at every
\* activation.
C18_IdleGapZero ==
  /\ ~recording_started => gap_counter = 0
  /\ (op = "handle" /\ ~call.recording) => call.gap = 0

\* A second activation, after a reset.
C18_Witness ==
  /\ op = "handle" /\ ~call.recording /\ call.vad_confidence
  /\ recording_started /\ epoch >= 2 /\ PauseFrames >= 2
  /\ gap_counter = 0

\* C19 as stated: pausing does not end the processor thread; once it has
\* been resumed (started, not stopped, not paused) the same thread is alive
\* and goes on with the queue.
C19_Original ==
  (thread # "unstarted" /\ ~stop_event /\ ~pause_event) => thread = "running"

====
